---------------------------- MODULE Spec2Model ----------------------------
(***************************************************************************)
(* A model of dynamic_preferences/models.py: the preference record         *)
(* (BasePreferenceModel and its three scope specializations), the record   *)
(* manager's to_dict, the storage uniqueness constraints and the post_save *)
(* hook that provisions default preferences for a new owner.               *)
(*                                                                         *)
(* Python values are modelled as strings: "py:True" is the Python object   *)
(* True, whereas "True" is the text a serializer stores in raw_value.      *)
(* None is the one Python None (a null section, a null raw_value, an       *)
(* absent value= argument).                                                *)
(***************************************************************************)
EXTENDS Integers, Sequences, FiniteSets, Bags, TLC

VARIABLES rec, last, scope, store, nulls_distinct, saved, result, owners, event

vars == <<rec, last, scope, store, nulls_distinct, saved, result, owners, event>>

-----------------------------------------------------------------------------
(* Bounds of the model *)

\* raw registry.get invocations followed on one in-memory instance
MaxLookups == 3
\* rows a table holds at most
MaxRows == 3

-----------------------------------------------------------------------------
(* Python values, texts, fields *)

None == "py:None"
PyTrue == "py:True"
PyFalse == "py:False"
Py0 == "py:0"
Py1 == "py:1"

\* the values a caller may hand to value=
Values == {PyTrue, PyFalse, Py0, Py1}

\* the texts a raw_value column may hold (besides null)
Texts == {"True", "False", "0", "1", "garbage"}

\* pk of an instance that has none (self.pk is None)
NoPk == 0

Scopes == {"global", "site", "user"}
Sections == {None, "s"}
Names == {"a", "b", "old"}

-----------------------------------------------------------------------------
(* The registry / serializer boundary (dynamic_preferences.registries and *)
(* .serializers are consumed, not defined, by models.py)                   *)

Ok(x) == [ok |-> TRUE, val |-> x, err |-> "none"]
Err(kind) == [ok |-> FALSE, val |-> None, err |-> kind]

\* Definition.serializer.serialize: Value -> Text, or SerializationError
Serialize(ser, v) ==
    CASE ser = "bool" /\ v = PyTrue  -> Ok("True")
      [] ser = "bool" /\ v = PyFalse -> Ok("False")
      [] ser = "int"  /\ v = Py0     -> Ok("0")
      [] ser = "int"  /\ v = Py1     -> Ok("1")
      [] OTHER                       -> Err("SerializationError")

\* Definition.serializer.deserialize: Text -> Value, or DeserializationError
Deserialize(ser, raw) ==
    CASE ser = "bool" /\ raw = "True"  -> Ok(PyTrue)
      [] ser = "bool" /\ raw = "False" -> Ok(PyFalse)
      [] ser = "int"  /\ raw = "0"     -> Ok(Py0)
      [] ser = "int"  /\ raw = "1"     -> Ok(Py1)
      [] OTHER                         -> Err("DeserializationError")

NoDef == [default |-> None, serializer |-> "none"]

\* The three registries: (section, name) -> Definition.  The site registry
\* declares no null-section preference and another default for ("s", "a").
Registry(sc) ==
    CASE sc = "site" ->
           [k \in {<<"s", "a">>, <<"s", "b">>} |->
              IF k = <<"s", "a">>
              THEN [default |-> Py0, serializer |-> "int"]
              ELSE [default |-> PyTrue, serializer |-> "bool"]]
      [] OTHER ->
           [k \in {<<None, "a">>, <<"s", "a">>, <<"s", "b">>} |->
              CASE k = <<None, "a">> -> [default |-> PyTrue, serializer |-> "bool"]
                [] k = <<"s", "a">>  -> [default |-> Py1, serializer |-> "int"]
                [] OTHER             -> [default |-> PyFalse, serializer |-> "bool"]]

Registered(sc, section, name) == <<section, name>> \in DOMAIN Registry(sc)

\* registry.get(section=, name=): the Definition, or a LookupError
RegistryGet(sc, section, name) ==
    IF Registered(sc, section, name)
    THEN [ok |-> TRUE, def |-> Registry(sc)[<<section, name>>]]
    ELSE [ok |-> FALSE, def |-> NoDef]

-----------------------------------------------------------------------------
(* BasePreferenceModel: one in-memory instance *)

NoKey == <<>>

\* the instance after Model.__init__ has set the fields from kwargs
FieldsOf(sc, kw) ==
    [exists |-> TRUE, scope |-> sc, pk |-> kw.pk, persisted |-> FALSE,
     section |-> kw.section, name |-> kw.name, raw_value |-> kw.raw_value,
     cached |-> FALSE, preference |-> NoKey, lookups |-> 0, hits |-> 0]

NoRec ==
    [exists |-> FALSE, scope |-> "global", pk |-> NoPk, persisted |-> FALSE,
     section |-> None, name |-> "a", raw_value |-> None,
     cached |-> FALSE, preference |-> NoKey, lookups |-> 0, hits |-> 0]

\* a plain property: every access asks the registry again
PreferenceUncached(r) ==
    LET g == RegistryGet(r.scope, r.section, r.name)
    IN  [rec |-> [r EXCEPT !.lookups = @ + 1,
                           !.hits = @ + (IF g.ok THEN 1 ELSE 0)],
         ok |-> g.ok, def |-> g.def]

\* @cached_property preference: the first successful registry.get is kept in
\* the instance and reused; a lookup that raises stores nothing.
Preference(r) ==
    IF r.cached
    THEN [rec |-> r, ok |-> TRUE, def |-> Registry(r.scope)[r.preference]]
    ELSE LET g == RegistryGet(r.scope, r.section, r.name)
         IN  [rec |-> [r EXCEPT !.lookups = @ + 1,
                                !.hits = @ + (IF g.ok THEN 1 ELSE 0),
                                !.cached = g.ok,
                                !.preference = IF g.ok THEN <<r.section, r.name>> ELSE @],
              ok |-> g.ok, def |-> g.def]

\* raw_value is cleared before the serializer has accepted the value
SetValueClearsFirst(r, v) ==
    LET p == Preference(r)
        cleared == [p.rec EXCEPT !.raw_value = None]
    IN  IF ~p.ok
        THEN [rec |-> cleared, err |-> "LookupError"]
        ELSE LET s == Serialize(p.def.serializer, v)
             IN  IF s.ok
                 THEN [rec |-> [p.rec EXCEPT !.raw_value = s.val], err |-> "none"]
                 ELSE [rec |-> cleared, err |-> s.err]

\* set_value: self.raw_value = self.preference.serializer.serialize(value)
SetValue(r, v) ==
    LET p == Preference(r)
    IN  IF ~p.ok
        THEN [rec |-> p.rec, err |-> "LookupError"]
        ELSE LET s == Serialize(p.def.serializer, v)
             IN  IF s.ok
                 THEN [rec |-> [p.rec EXCEPT !.raw_value = s.val], err |-> "none"]
                 ELSE [rec |-> p.rec, err |-> s.err]

\* get_value: self.preference.serializer.deserialize(self.raw_value)
GetValue(r) ==
    LET p == Preference(r)
    IN  IF ~p.ok
        THEN [rec |-> p.rec, err |-> "LookupError", val |-> None]
        ELSE LET d == Deserialize(p.def.serializer, r.raw_value)
             IN  [rec |-> p.rec, err |-> d.err, val |-> d.val]

\* the default branch is missing: an instance built without value= keeps
\* whatever raw_value the fields gave it
InitRecordNoDefault(sc, kw) ==
    LET base == FieldsOf(sc, kw)
    IN  IF base.pk = NoPk /\ kw.value # None
        THEN SetValue(base, kw.value)
        ELSE [rec |-> base, err |-> "none"]

\* "if v:" in place of "if v is not None": a falsy explicit value is taken
\* for an absent one
InitRecordTruthy(sc, kw) ==
    LET base == FieldsOf(sc, kw)
    IN  IF base.pk = NoPk
        THEN IF kw.value \notin {None, PyFalse, Py0}
             THEN SetValue(base, kw.value)
             ELSE LET p == Preference(base)
                  IN  IF p.ok
                      THEN SetValue(p.rec, p.def.default)
                      ELSE [rec |-> p.rec, err |-> "LookupError"]
        ELSE [rec |-> base, err |-> "none"]

\* BasePreferenceModel.__init__(*args, **kwargs)
InitRecord(sc, kw) ==
    LET base == FieldsOf(sc, kw)
        new == base.pk = NoPk
    IN  IF new
        THEN IF kw.value # None
             THEN SetValue(base, kw.value)
             ELSE LET p == Preference(base)
                  IN  IF p.ok
                      THEN SetValue(p.rec, p.def.default)
                      ELSE [rec |-> p.rec, err |-> "LookupError"]
        ELSE [rec |-> base, err |-> "none"]

-----------------------------------------------------------------------------
(* Operations on one in-memory instance *)

NoKw == [pk |-> NoPk, section |-> None, name |-> "a", raw_value |-> None, value |-> None]

NoLast ==
    [op |-> "init", scope |-> "global", kw |-> NoKw, arg |-> None,
     err |-> "none", before |-> None, val |-> None]

\* the keyword arguments a caller constructs a record with; pk = 1 stands
\* for any explicit primary key
KwArgs ==
    [pk : {NoPk, 1}, section : Sections, name : Names,
     raw_value : {None, "garbage"}, value : Values \cup {None}]

\* the rows a table may hand to from_db: any key, any text or null
DbRows ==
    [pk : {1}, section : Sections, name : Names,
     raw_value : Texts \cup {None}, value : {None}]

\* Model(section=, name=, [value=], [pk=], [raw_value=]): an instance that is
\* not in the database; a constructor that raises leaves no instance
New(sc, kw) ==
    LET i == InitRecord(sc, kw)
    IN  /\ rec' = IF i.err = "none" THEN i.rec ELSE NoRec
        /\ last' = [op |-> "new", scope |-> sc, kw |-> kw, arg |-> kw.value,
                    err |-> i.err, before |-> kw.raw_value, val |-> None]
        /\ UNCHANGED <<scope, store, nulls_distinct, saved, result, owners, event>>

\* Model.from_db: the same constructor, called with the row's columns
FromDb(sc, row) ==
    LET i == InitRecord(sc, row)
    IN  /\ rec' = IF i.err = "none" THEN [i.rec EXCEPT !.persisted = TRUE] ELSE NoRec
        /\ last' = [op |-> "from_db", scope |-> sc, kw |-> row, arg |-> None,
                    err |-> i.err, before |-> row.raw_value, val |-> None]
        /\ UNCHANGED <<scope, store, nulls_distinct, saved, result, owners, event>>

\* record.value = v
WriteValue(v) ==
    /\ rec.exists
    /\ rec.lookups < MaxLookups
    /\ LET s == SetValue(rec, v)
       IN  /\ rec' = s.rec
           /\ last' = [op |-> "set", scope |-> rec.scope, kw |-> NoKw, arg |-> v,
                       err |-> s.err, before |-> rec.raw_value, val |-> None]
    /\ UNCHANGED <<scope, store, nulls_distinct, saved, result, owners, event>>

\* record.value
ReadValue ==
    /\ rec.exists
    /\ rec.lookups < MaxLookups
    /\ LET g == GetValue(rec)
       IN  /\ rec' = g.rec
           /\ last' = [op |-> "get", scope |-> rec.scope, kw |-> NoKw, arg |-> None,
                       err |-> g.err, before |-> rec.raw_value, val |-> g.val]
    /\ UNCHANGED <<scope, store, nulls_distinct, saved, result, owners, event>>

\* a record of no owner (the global scope has no instance field)
NoOwner == 0
\* the users, and the sites, that may exist
OwnerIds == {1, 2}

EmptyMap == [x \in {} |-> None]
NoFilter == [byOwner |-> FALSE, owner |-> NoOwner, bySection |-> FALSE, section |-> None]
NoResult == [called |-> FALSE, filter |-> NoFilter, returned |-> FALSE,
             err |-> "none", d |-> EmptyMap]
NoSaved == [op |-> "init", dup |-> FALSE, err |-> "none"]
NoEvent == [sender |-> "none", id |-> NoOwner, created |-> FALSE, calls |-> 0]

InitRecordSpec ==
    /\ rec = NoRec
    /\ last = NoLast
    /\ scope = "global"
    /\ store = EmptyBag
    /\ nulls_distinct = TRUE
    /\ saved = NoSaved
    /\ result = NoResult
    /\ owners = {}
    /\ event = NoEvent

NextRecord ==
    \/ \E sc \in Scopes, kw \in KwArgs : New(sc, kw)
    \/ \E sc \in Scopes, row \in DbRows : FromDb(sc, row)
    \/ \E v \in Values : WriteValue(v)
    \/ ReadValue

SpecRecord == InitRecordSpec /\ [][NextRecord]_vars

-----------------------------------------------------------------------------
(* Claims about one instance *)

\* the raw_value the construction policy gives a fresh instance built from kw
PolicyRaw(sc, kw) ==
    LET def == Registry(sc)[<<kw.section, kw.name>>]
    IN  Serialize(def.serializer, IF kw.value # None THEN kw.value ELSE def.default)

\* C1: a record of a registered (section, name) constructed without primary
\* key and without value= holds raw_value = serialize(default), which is not
\* null, and reading its value gives the definition's default.
DefaultMaterialization ==
    (/\ last.op = "new"
     /\ last.kw.pk = NoPk
     /\ last.kw.value = None
     /\ Registered(last.scope, last.kw.section, last.kw.name))
    => LET def == Registry(last.scope)[<<last.kw.section, last.kw.name>>]
       IN  /\ last.err = "none"
           /\ rec.exists
           /\ rec.raw_value # None
           /\ rec.raw_value = Serialize(def.serializer, def.default).val
           /\ GetValue(rec).err = "none"
           /\ GetValue(rec).val = def.default

\* a fresh site record of ("s", "a") was built over a supplied raw_value and
\* now holds the site registry's default
DefaultMaterializationWitness ==
    /\ last.op = "new"
    /\ last.scope = "site"
    /\ last.kw = [pk |-> NoPk, section |-> "s", name |-> "a",
                  raw_value |-> "garbage", value |-> None]
    /\ rec.exists
    /\ rec.raw_value = "0"

\* C2: a record of a registered (section, name) constructed without primary
\* key and with value=v, v accepted by the definition's serializer, reads back
\* v, whatever the definition's default.
ExplicitValuePrecedence ==
    (/\ last.op = "new"
     /\ last.kw.pk = NoPk
     /\ last.kw.value # None
     /\ Registered(last.scope, last.kw.section, last.kw.name)
     /\ PolicyRaw(last.scope, last.kw).ok)
    => /\ last.err = "none"
       /\ rec.exists
       /\ rec.raw_value = PolicyRaw(last.scope, last.kw).val
       /\ GetValue(rec).err = "none"
       /\ GetValue(rec).val = last.kw.value

\* a fresh global record of (None, "a"), default True, was built with the
\* falsy value False and holds it
ExplicitValuePrecedenceWitness ==
    /\ last.op = "new"
    /\ last.scope = "global"
    /\ last.kw.pk = NoPk
    /\ last.kw.section = None
    /\ last.kw.name = "a"
    /\ last.kw.value = PyFalse
    /\ rec.exists
    /\ rec.raw_value = "False"

\* C3: an instance loaded from storage keeps the raw_value it was loaded
\* with and no lookup is made for it, and every instance that is constructed
\* and not yet persisted has had the construction policy applied.
FreshConstructionOnly ==
    /\ (last.op = "from_db" /\ rec.exists)
       => /\ rec.raw_value = last.kw.raw_value
          /\ rec.lookups = 0
    /\ (last.op = "new" /\ rec.exists /\ ~rec.persisted)
       => /\ Registered(last.scope, last.kw.section, last.kw.name)
          /\ PolicyRaw(last.scope, last.kw).ok
          /\ rec.raw_value = PolicyRaw(last.scope, last.kw).val

\* C7: a value assignment that fails leaves raw_value as it was.
FailedSetKeepsRaw ==
    (last.op = "set" /\ last.err # "none") => rec.raw_value = last.before

\* an int was assigned to a fresh bool record: the serializer rejected it
FailedSetKeepsRawWitness ==
    /\ last.op = "set"
    /\ last.err = "SerializationError"
    /\ last.arg = Py1
    /\ rec.exists
    /\ ~rec.persisted
    /\ rec.raw_value = "True"

\* C10 as stated: registry.get is invoked at most once on an instance (here
\* on an instance loaded from storage or constructed without primary key).
LookupAtMostOnce ==
    (rec.persisted \/ rec.pk = NoPk) => rec.lookups <= 1

\* C10 amended: registry.get succeeds at most once on an instance; the
\* definition it returned is kept and, from then on, value reads and writes
\* on that instance invoke registry.get no more.  (A lookup that fails is
\* not kept and is made again by the next access.)
MemoizedAfterSuccess ==
    [][/\ rec'.hits <= 1
       /\ rec'.cached <=> (rec'.hits = 1)
       /\ rec'.cached => rec'.preference = <<rec'.section, rec'.name>>
       /\ (rec.cached /\ last'.op \in {"set", "get"})
          => /\ rec'.lookups = rec.lookups
             /\ rec'.preference = rec.preference
       /\ (~rec.cached /\ last'.op \in {"set", "get"})
          => rec'.lookups = rec.lookups + 1]_vars

\* a fresh record was constructed, written and read: one lookup in all
MemoizedAfterSuccessWitness ==
    /\ last.op = "get"
    /\ last.err = "none"
    /\ rec.exists
    /\ ~rec.persisted
    /\ rec.cached
    /\ rec.lookups = 1
    /\ rec.raw_value = "0"
    /\ rec.scope = "user"

-----------------------------------------------------------------------------
(* The table of one scope and its manager.  A row is (instance, section,   *)
(* name, raw_value); the table is a bag of rows, the primary key, which    *)
(* the code never reads but to test it against None, left out.             *)

OwnersOf(sc) == IF sc = "global" THEN {NoOwner} ELSE OwnerIds

Row(o, r) == [owner |-> o, section |-> r.section, name |-> r.name, raw_value |-> r.raw_value]

SameKey(x, y) == x.owner = y.owner /\ x.section = y.section /\ x.name = y.name

\* unique_together on (section, name), resp. (instance, section, name), of a
\* table whose section column is nullable: whether two null sections count
\* as equal is the database's choice (nulls_distinct)
UniqueConflict(rows, row) ==
    \E x \in BagToSet(rows) :
        /\ SameKey(x, row)
        /\ (row.section # None \/ ~nulls_distinct)

\* no call on the table is under way: the outcome of the last one was taken
Idle == ~result.called /\ saved.op = "init"

\* Model(instance=o, section=, name=, [value=v]).save(): a fresh instance is
\* constructed and inserted
Create(o, section, name, v) ==
    /\ Idle
    /\ BagCardinality(store) < MaxRows
    /\ LET kw == [pk |-> NoPk, section |-> section, name |-> name,
                  raw_value |-> None, value |-> v]
           i == InitRecord(scope, kw)
           row == Row(o, i.rec)
           dup == \E x \in BagToSet(store) : SameKey(x, row)
       IN  IF i.err # "none"
           THEN /\ saved' = [op |-> "create", dup |-> FALSE, err |-> i.err]
                /\ store' = store
           ELSE IF UniqueConflict(store, row)
           THEN /\ saved' = [op |-> "create", dup |-> dup, err |-> "IntegrityError"]
                /\ store' = store
           ELSE /\ saved' = [op |-> "create", dup |-> dup, err |-> "none"]
                /\ store' = store (+) SetToBag({row})
    /\ UNCHANGED <<rec, last, scope, nulls_distinct, result, owners, event>>

\* the rows written with their primary key and raw_value given (a fixture, a
\* dump of an older deployment): a preference since removed from the
\* registry, and a text the serializer does not read
ImportRows ==
    {[section |-> "s", name |-> "old", raw_value |-> "1"],
     [section |-> "s", name |-> "b", raw_value |-> "garbage"]}

\* Model(pk=k, instance=o, section=, name=, raw_value=).save() with k unused
Import(o, r) ==
    /\ Idle
    /\ BagCardinality(store) < MaxRows
    /\ LET kw == [pk |-> 1, section |-> r.section, name |-> r.name,
                  raw_value |-> r.raw_value, value |-> None]
           i == InitRecord(scope, kw)
           row == Row(o, i.rec)
           dup == \E x \in BagToSet(store) : SameKey(x, row)
       IN  IF UniqueConflict(store, row)
           THEN /\ saved' = [op |-> "import", dup |-> dup, err |-> "IntegrityError"]
                /\ store' = store
           ELSE /\ saved' = [op |-> "import", dup |-> dup, err |-> i.err]
                /\ store' = store (+) SetToBag({row})
    /\ UNCHANGED <<rec, last, scope, nulls_distinct, result, owners, event>>

\* p = Model.objects.get(...); p.value = v; p.save()
UpdateValue(row, v) ==
    /\ Idle
    /\ BagIn(row, store)
    /\ LET kw == [pk |-> 1, section |-> row.section, name |-> row.name,
                  raw_value |-> row.raw_value, value |-> None]
           s == SetValue(InitRecord(scope, kw).rec, v)
       IN  IF s.err # "none"
           THEN /\ saved' = [op |-> "update", dup |-> FALSE, err |-> s.err]
                /\ store' = store
           ELSE /\ saved' = [op |-> "update", dup |-> FALSE, err |-> "none"]
                /\ store' = (store (-) SetToBag({row})) (+) SetToBag({Row(row.owner, s.rec)})
    /\ UNCHANGED <<rec, last, scope, nulls_distinct, result, owners, event>>

\* the field equalities to_dict(**kwargs) hands to filter()
Filters(sc) ==
    {NoFilter}
    \cup {[byOwner |-> TRUE, owner |-> o, bySection |-> FALSE, section |-> None] :
            o \in OwnersOf(sc) \ {NoOwner}}
    \cup {[byOwner |-> FALSE, owner |-> NoOwner, bySection |-> TRUE, section |-> s] :
            s \in Sections}
    \cup {[byOwner |-> TRUE, owner |-> o, bySection |-> TRUE, section |-> s] :
            o \in OwnersOf(sc) \ {NoOwner}, s \in Sections}

Match(f, x) ==
    /\ f.byOwner => x.owner = f.owner
    /\ f.bySection => x.section = f.section

\* self.get_queryset().all() [.filter(**kwargs)]
Matching(rows, f) ==
    LET S == {x \in BagToSet(rows) : Match(f, x)}
    IN  [x \in S |-> rows[x]]

RECURSIVE RowSeq(_)
\* the matching rows, one element per row
RowSeq(b) ==
    IF BagToSet(b) = {}
    THEN <<>>
    ELSE LET x == CHOOSE y \in BagToSet(b) : TRUE
         IN  <<x>> \o RowSeq(b (-) SetToBag({x}))

\* d[section][name] = value, on a d that has the section
Put(d, section, name, v) ==
    [d EXCEPT ![section] =
        [n \in DOMAIN d[section] \cup {name} |-> IF n = name THEN v ELSE d[section][n]]]

\* d[section] = {}
NewSection(d, section) ==
    [s \in DOMAIN d \cup {section} |-> IF s = section THEN EmptyMap ELSE d[s]]

\* the instance the queryset yields for a row
Loaded(sc, x) ==
    [InitRecord(sc, [pk |-> 1, section |-> x.section, name |-> x.name,
                     raw_value |-> x.raw_value, value |-> None]).rec
       EXCEPT !.persisted = TRUE]

\* the section is emptied for every record, not only when it is missing
ToDictStepResets(sc, st, x) ==
    LET g == GetValue(Loaded(sc, x))
    IN  IF st.err # "none" THEN st
        ELSE IF g.err # "none" THEN [d |-> st.d, err |-> g.err]
        ELSE [d |-> Put(NewSection(st.d, x.section), x.section, x.name, g.val),
              err |-> "none"]

\* the handler gives up on the record instead of evaluating p.value again
ToDictStepSkips(sc, st, x) ==
    LET g1 == GetValue(Loaded(sc, x))
    IN  IF st.err # "none" THEN st
        ELSE IF g1.err = "none" /\ x.section \in DOMAIN st.d
        THEN [d |-> Put(st.d, x.section, x.name, g1.val), err |-> "none"]
        ELSE IF g1.err \notin {"none", "LookupError"}
        THEN [d |-> st.d, err |-> g1.err]
        ELSE IF g1.err = "LookupError"
        THEN st
        ELSE [d |-> Put(NewSection(st.d, x.section), x.section, x.name, g1.val),
              err |-> "none"]

\* one turn of the loop of to_dict:
\*     try: d[p.section][p.name] = p.value
\*     except KeyError: d[p.section] = {}; d[p.section][p.name] = p.value
\* p.value is evaluated before d[p.section]; the LookupError of a missing
\* definition is the KeyError of the registry's own mapping, so the handler
\* catches it too, and then evaluates p.value a second time.
ToDictStep(sc, st, x) ==
    LET g1 == GetValue(Loaded(sc, x))
    IN  IF st.err # "none" THEN st
        ELSE IF g1.err = "none" /\ x.section \in DOMAIN st.d
        THEN [d |-> Put(st.d, x.section, x.name, g1.val), err |-> "none"]
        ELSE IF g1.err \notin {"none", "LookupError"}
        THEN [d |-> st.d, err |-> g1.err]
        ELSE LET d1 == NewSection(st.d, x.section)
                 g2 == GetValue(g1.rec)
             IN  IF g2.err = "none"
                 THEN [d |-> Put(d1, x.section, x.name, g2.val), err |-> "none"]
                 ELSE [d |-> d1, err |-> g2.err]

RECURSIVE Scan(_, _, _, _, _)
\* for p in preferences, the rows L scanned in the order p
Scan(sc, L, p, i, st) ==
    IF i > Len(L)
    THEN st
    ELSE Scan(sc, L, p, i + 1, ToDictStep(sc, st, L[p[i]]))

\* PreferenceModelManager.to_dict(**kwargs) over the matching rows L, scanned
\* in the order p: the mapping, or the exception that ended the call
ToDictOf(sc, L, f, p) ==
    LET fin == Scan(sc, L, p, 1, [d |-> EmptyMap, err |-> "none"])
    IN  [called |-> TRUE, filter |-> f, returned |-> fin.err = "none",
         err |-> fin.err, d |-> IF fin.err = "none" THEN fin.d ELSE EmptyMap]

\* a call of to_dict; the database yields the rows in an order of its own
ToDict(f) ==
    /\ Idle
    /\ LET L == RowSeq(Matching(store, f))
       IN  \E p \in Permutations(1 .. Len(L)) : result' = ToDictOf(scope, L, f, p)
    /\ UNCHANGED <<rec, last, scope, store, nulls_distinct, saved, owners, event>>

\* the caller has taken the outcome of its call: the mapping or the
\* exception of to_dict, the success or the exception of a save
Return ==
    /\ ~Idle
    /\ result' = NoResult
    /\ saved' = NoSaved
    /\ UNCHANGED <<rec, last, scope, store, nulls_distinct, owners, event>>

InitStore ==
    /\ rec = NoRec
    /\ last = NoLast
    /\ scope \in Scopes
    /\ store = EmptyBag
    /\ nulls_distinct \in BOOLEAN
    /\ saved = NoSaved
    /\ result = NoResult
    /\ owners = {}
    /\ event = NoEvent

NextStore ==
    \/ \E o \in OwnersOf(scope), section \in Sections, name \in Names,
          v \in Values \cup {None} : Create(o, section, name, v)
    \/ \E o \in OwnersOf(scope), r \in ImportRows : Import(o, r)
    \/ \E row \in BagToSet(store), v \in Values : UpdateValue(row, v)
    \/ \E f \in Filters(scope) : ToDict(f)
    \/ Return

SpecStore == InitStore /\ [][NextStore]_vars

-----------------------------------------------------------------------------
(* Claims about the manager and the table *)

\* what a stored row decodes to, by the registry of its scope
RowValue(sc, x) ==
    IF Registered(sc, x.section, x.name)
    THEN Deserialize(Registry(sc)[<<x.section, x.name>>].serializer, x.raw_value)
    ELSE Err("LookupError")

Entries(d) == UNION {{<<s, n, d[s][n]>> : n \in DOMAIN d[s]} : s \in DOMAIN d}

Expected(sc, M) == {<<x.section, x.name, RowValue(sc, x).val>> : x \in BagToSet(M)}

\* no two rows of the table have the same (instance, section, name)
StoreUnique ==
    /\ \A x \in BagToSet(store) : store[x] = 1
    /\ \A x, y \in BagToSet(store) : SameKey(x, y) => x = y

\* no two of the rows M have the same (section, name)
DistinctNames(M) ==
    /\ \A x \in BagToSet(M) : M[x] = 1
    /\ \A x, y \in BagToSet(M) : (x.section = y.section /\ x.name = y.name) => x = y

\* C4 as stated: whatever the filter, the mapping to_dict returns has exactly
\* the (section, name) entries of the matching records, each with that
\* record's value (on a table that keeps its uniqueness key).
GroupingAsStated ==
    (result.called /\ result.returned /\ StoreUnique)
    => /\ Entries(result.d) = Expected(scope, Matching(store, result.filter))
       /\ \A s \in DOMAIN result.d : DOMAIN result.d[s] # {}

\* C4 amended: when no two matching records have the same (section, name),
\* the mapping to_dict returns has exactly the (section, name) entries of the
\* matching records, each with that record's value, a null section under the
\* None key, whatever the scan order.
GroupingOfDistinctNames ==
    (/\ result.called
     /\ result.returned
     /\ DistinctNames(Matching(store, result.filter)))
    => /\ Entries(result.d) = Expected(scope, Matching(store, result.filter))
       /\ \A s \in DOMAIN result.d : DOMAIN result.d[s] # {}

\* three records, one of a null section and two of section "s", are grouped
GroupingOfDistinctNamesWitness ==
    /\ result.called
    /\ result.returned
    /\ BagCardinality(Matching(store, result.filter)) = 3
    /\ DOMAIN result.d = {None, "s"}
    /\ DOMAIN result.d["s"] = {"a", "b"}
    /\ DOMAIN result.d[None] = {"a"}

\* C8: to_dict returns a mapping exactly when every matching record is
\* decodable; otherwise it ends with the LookupError or DeserializationError
\* of an undecodable matching record and returns nothing.
ToDictAllOrNothing ==
    result.called
    => LET M == BagToSet(Matching(store, result.filter))
           bad == {x \in M : ~RowValue(scope, x).ok}
       IN  IF bad = {}
           THEN result.returned /\ result.err = "none"
           ELSE /\ ~result.returned
                /\ result.d = EmptyMap
                /\ \E x \in bad : result.err = RowValue(scope, x).err

\* a record without definition among decodable ones of its section: the call
\* ended with the LookupError
ToDictAllOrNothingWitness ==
    /\ result.called
    /\ ~result.returned
    /\ result.err = "LookupError"
    /\ \E x, y \in BagToSet(Matching(store, result.filter)) :
          /\ RowValue(scope, x).ok
          /\ ~RowValue(scope, y).ok
          /\ x.section = y.section

\* C9: no two records of a table have the same (instance, section, name),
\* a null section included, and a save that would add a second one is
\* rejected.
UniquenessInvariant ==
    /\ StoreUnique
    /\ saved.dup => (saved.err = "IntegrityError")

-----------------------------------------------------------------------------
(* The post_save hook *)

OwnerTypes == {"User", "Site", "Group"}

\* per_instance_preferences: entity type -> preference model class.  Only
\* the user model is bound; get() of another type gives None.
PerInstancePreferences(sender) == IF sender = "User" THEN "user" ELSE None

RECURSIVE CreateDefaults(_, _, _, _)
\* one record per definition of keys, constructed with its default and saved
CreateDefaults(sc, id, keys, rows) ==
    IF keys = {}
    THEN rows
    ELSE LET k == CHOOSE x \in keys : TRUE
             i == InitRecord(sc, [pk |-> NoPk, section |-> k[1], name |-> k[2],
                                  raw_value |-> None, value |-> None])
             row == Row(id, i.rec)
             have == \E x \in BagToSet(rows) : SameKey(x, row)
         IN  CreateDefaults(sc, id, keys \ {k},
                            IF have \/ i.err # "none" THEN rows
                            ELSE rows (+) SetToBag({row}))

\* Registry.create_default_preferences(instance)
CreateDefaultPreferences(sc, id, rows) ==
    CreateDefaults(sc, id, DOMAIN Registry(sc), rows)

\* "if not created": the hook reacts to updates instead of creations
HookOnUpdate(sender, created, id, rows) ==
    LET preference_class == PerInstancePreferences(sender)
    IN  IF ~created /\ preference_class # None
        THEN [store |-> CreateDefaultPreferences(preference_class, id, rows), calls |-> 1]
        ELSE [store |-> rows, calls |-> 0]

\* the created flag is not looked at
HookOnEverySave(sender, created, id, rows) ==
    LET preference_class == PerInstancePreferences(sender)
    IN  IF preference_class # None
        THEN [store |-> CreateDefaultPreferences(preference_class, id, rows), calls |-> 1]
        ELSE [store |-> rows, calls |-> 0]

\* create_default_per_instance_preferences(sender, created, instance)
Hook(sender, created, id, rows) ==
    LET preference_class == PerInstancePreferences(sender)
    IN  IF created /\ preference_class # None
        THEN [store |-> CreateDefaultPreferences(preference_class, id, rows), calls |-> 1]
        ELSE [store |-> rows, calls |-> 0]

\* an entity is saved for the first time: post_save with created=True
OwnerCreated(type, id) ==
    /\ <<type, id>> \notin owners
    /\ owners' = owners \cup {<<type, id>>}
    /\ LET h == Hook(type, TRUE, id, store)
       IN  /\ store' = h.store
           /\ event' = [sender |-> type, id |-> id, created |-> TRUE, calls |-> h.calls]
    /\ UNCHANGED <<rec, last, scope, nulls_distinct, saved, result>>

\* an existing entity is saved again: post_save with created=False
OwnerUpdated(type, id) ==
    /\ <<type, id>> \in owners
    /\ LET h == Hook(type, FALSE, id, store)
       IN  /\ store' = h.store
           /\ event' = [sender |-> type, id |-> id, created |-> FALSE, calls |-> h.calls]
    /\ UNCHANGED <<rec, last, scope, nulls_distinct, saved, result, owners>>

InitHook ==
    /\ rec = NoRec
    /\ last = NoLast
    /\ scope = "user"
    /\ store = EmptyBag
    /\ nulls_distinct = TRUE
    /\ saved = NoSaved
    /\ result = NoResult
    /\ owners = {}
    /\ event = NoEvent

NextHook ==
    \/ \E type \in OwnerTypes, id \in OwnerIds : OwnerCreated(type, id)
    \/ \E type \in OwnerTypes, id \in OwnerIds : OwnerUpdated(type, id)

SpecHook == InitHook /\ [][NextHook]_vars

=============================================================================
